---- MODULE Spec2Model ----
(***************************************************************************)
(* A model of the retrieval core of CardIQ: PDFProcessor.chunk_text        *)
(* (src/utils/pdf_processor.py) and RAGSystem (src/rag/rag_system.py), and *)
(* of the staged pipeline OrchestratorAgent.run (src/agents).              *)
(*                                                                         *)
(* A Python string is a sequence of one-character strings.  A chunk is the *)
(* dictionary the code builds, as a record.  None, where a field can hold  *)
(* None or a value, is a record with an isNone flag.                       *)
(***************************************************************************)
EXTENDS Integers, Sequences, FiniteSets, TLC

VARIABLES
    \* ---- PDFProcessor.chunk_text: one call, its arguments and its outcome
    text,        \* argument text
    chunk_size,  \* argument chunk_size
    overlap,     \* argument overlap
    ctPc,        \* "call" before the call, "done" once it has returned or raised
    ctRaised,    \* TRUE when the call ended by raising
    ctChunks,    \* the list the call returned
    \* ---- RAGSystem
    index,       \* self.index: None, or the vectors of the FAISS index in order
    chunks,      \* self.chunks
    diskIndex,   \* embeddings_dir/faiss_index.bin
    diskChunks,  \* embeddings_dir/chunks_metadata.pkl
    op,          \* the last call made on the RAGSystem and its arguments
    outcome,     \* how that call ended: "none", "returned" or "raised"
    ret,         \* what it returned (load_index: a boolean)
    results,     \* what search returned
    resultObj,   \* for each of these results, which dict it is: 0 for a dict of
                 \* its own, p for the dict at position p of self.chunks
    tieOrder,    \* the order in which this build of FAISS returns equidistant vectors
    succeeded,   \* history: a create_embeddings or load_index call has completed
                 \* successfully on this RAGSystem since it was constructed
    saved,       \* history: what the last save_index to write to the directory
                 \* was saving, when it ran to its end
    \* ---- OrchestratorAgent.run: one call
    runPc,        \* "idle" before the call, then the agent whose process is
                  \* called next, "done" once run has returned or raised
    run_cards,    \* argument cards
    total_usage,  \* the local total_usage
    stageResults, \* spending_result, benefit_result, selector_result: what the
                  \* process calls made so far returned, in call order
    runOutcome,   \* how run ended: "none", "returned" or "raised"
    runReturn     \* the dict run returned

chunkVars == <<text, chunk_size, overlap, ctPc, ctRaised, ctChunks>>
ragVars == <<index, chunks, diskIndex, diskChunks, op, outcome, ret, results, resultObj,
            tieOrder, succeeded, saved>>
runVars == <<runPc, run_cards, total_usage, stageResults, runOutcome, runReturn>>
vars == <<text, chunk_size, overlap, ctPc, ctRaised, ctChunks,
          index, chunks, diskIndex, diskChunks, op, outcome, ret, results,
          resultObj, tieOrder, succeeded, saved,
          runPc, run_cards, total_usage, stageResults, runOutcome, runReturn>>

(***************************************************************************)
(* Bounds of the chunker's inputs.                                         *)
(***************************************************************************)
MaxTextLen == 5
MaxChunkSize == 6
MaxOverlap == 6

Chars == {"a", ".", " ", "\n"}

RECURSIVE SeqsUpTo(_, _)
SeqsUpTo(S, n) ==
    IF n = 0 THEN {<<>>}
    ELSE LET shorter == SeqsUpTo(S, n - 1)
         IN  shorter \cup {Append(s, c) : s \in {t \in shorter : Len(t) = n - 1}, c \in S}

InputTexts == SeqsUpTo(Chars, MaxTextLen)

(***************************************************************************)
(* Python string operations used by chunk_text.                            *)
(***************************************************************************)
\* str.replace('\n', ' ')
ReplaceNewlines(s) == [i \in 1..Len(s) |-> IF s[i] = "\n" THEN " " ELSE s[i]]

IsSpace(c) == c \in {" ", "\n"}

\* str.lstrip(), str.rstrip(), str.strip() with no argument
RECURSIVE LStrip(_)
LStrip(s) == IF s # <<>> /\ IsSpace(Head(s)) THEN LStrip(Tail(s)) ELSE s

RECURSIVE RStrip(_)
RStrip(s) ==
    IF s # <<>> /\ IsSpace(s[Len(s)]) THEN RStrip(SubSeq(s, 1, Len(s) - 1)) ELSE s

Strip(s) == RStrip(LStrip(s))

\* The position of the first ". " in s, 0 when there is none.
FirstDelim(s) ==
    LET hits == {i \in 1..(Len(s) - 1) : s[i] = "." /\ s[i + 1] = " "}
    IN  IF hits = {} THEN 0 ELSE CHOOSE i \in hits : \A j \in hits : i <= j

\* str.split('. '): left to right, non-overlapping, empty pieces kept.
RECURSIVE SplitSentences(_)
SplitSentences(s) ==
    LET i == FirstDelim(s)
    IN  IF i = 0 THEN <<s>>
        ELSE <<SubSeq(s, 1, i - 1)>> \o SplitSentences(SubSeq(s, i + 2, Len(s)))

\* s[-n:] for n >= 0.  -0 is 0, so s[-0:] is the whole of s.
LastChars(s, n) ==
    IF n = 0 \/ n >= Len(s) THEN s ELSE SubSeq(s, Len(s) - n + 1, Len(s))

(***************************************************************************)
(* PDFProcessor.chunk_text.                                                *)
(***************************************************************************)
\* The dictionary appended to chunks, lines 60-64 and 75-79.
MakeChunk(id, current) ==
    [chunk_id |-> id, text |-> Strip(current), length |-> Len(current)]

\* The loop body with the test "and current_chunk" of line 59 left out: an
\* empty buffer is emitted too.
ChunkStepEmitsEmpty(st, raw, size, ov) ==
    LET sentence == Strip(raw) \o <<".", " ">>
    IN  IF Len(st.current_chunk) + Len(sentence) > size
        THEN [chunks        |-> Append(st.chunks, [chunk_id |-> st.chunk_id,
                                                   text |-> Strip(st.current_chunk),
                                                   length |-> Len(st.current_chunk)]),
              current_chunk |-> LastChars(st.current_chunk, ov) \o sentence,
              chunk_id      |-> st.chunk_id + 1]
        ELSE [st EXCEPT !.current_chunk = st.current_chunk \o sentence]

\* The loop body, lines 56-71, on the loop state st and one sentence.
ChunkStep(st, raw, size, ov) ==
    LET sentence == Strip(raw) \o <<".", " ">>
    IN  IF Len(st.current_chunk) + Len(sentence) > size /\ st.current_chunk # <<>>
        THEN [chunks        |-> Append(st.chunks, MakeChunk(st.chunk_id, st.current_chunk)),
              current_chunk |-> LastChars(st.current_chunk, ov) \o sentence,
              chunk_id      |-> st.chunk_id + 1]
        ELSE [st EXCEPT !.current_chunk = st.current_chunk \o sentence]

RECURSIVE ChunkLoop(_, _, _, _)
ChunkLoop(st, sentences, size, ov) ==
    IF sentences = <<>> THEN st
    ELSE ChunkLoop(ChunkStep(st, Head(sentences), size, ov), Tail(sentences), size, ov)

\* chunk_text(text, chunk_size, overlap), lines 49-81.
ChunkText(t, size, ov) ==
    LET sentences == SplitSentences(ReplaceNewlines(t))
        st0 == [chunks |-> <<>>, current_chunk |-> <<>>, chunk_id |-> 0]
        st  == ChunkLoop(st0, sentences, size, ov)
    IN  IF st.current_chunk # <<>>
        THEN Append(st.chunks, MakeChunk(st.chunk_id, st.current_chunk))
        ELSE st.chunks

(***************************************************************************)
(* RAGSystem: the data it works on.                                        *)
(*                                                                         *)
(* A chunk text is a token here; the embedding model is a fixed table from *)
(* tokens to vectors, and a vector is one integer coordinate, so that the  *)
(* squared L2 distance of FAISS is (a - b)^2.  "rate" lies midway between  *)
(* "fee" and "apr": a query that ties them.                                *)
(***************************************************************************)
MaxCards == 3
MaxK == 3
MaxTokens == 2

Queries == {"fee", "rate"}

\* SentenceTransformer.encode on one text (lines 65-70 and 139).
Encode(t) == CASE t = "fee" -> 0 [] t = "rate" -> 1 [] t = "apr" -> 2

\* Card names as strings: "Vg" and "AG".
CardNames == {<<"V", "g">>, <<"A", "G">>}

\* The chunk lists a card can carry, as the texts of its chunks in order.
CardTexts == {<<>>, <<"fee">>, <<"apr">>, <<"fee", "apr">>}

\* A processed card as process_card_pdf builds it (pdf_processor.py 99-112):
\* each chunk carries its chunk_id, its text and the card's name.
MakeCard(name, texts) ==
    [card_name |-> name,
     chunks    |-> [i \in 1..Len(texts) |->
                       [chunk_id |-> i - 1, text |-> texts[i], card_name |-> name]]]

Cards == {MakeCard(n, ts) : n \in CardNames, ts \in CardTexts}

\* The card lists create_embeddings is called with.
Corpora == SeqsUpTo(Cards, MaxCards)
\* ... and those the life-cycle specification calls it with: no card, or one
\* card of the first name.
SmallCorpora ==
    {cs \in Corpora : Len(cs) <= 1 /\ \A i \in 1..Len(cs) : cs[i].card_name = <<"V", "g">>}

\* str.lower(), on the letters card names and filters are written in.
LowerChar(c) == CASE c = "A" -> "a" [] c = "G" -> "g" [] c = "V" -> "v" [] OTHER -> c
Lower(s) == [i \in 1..Len(s) |-> LowerChar(s[i])]

\* sub in s
Contains(sub, s) ==
    \E i \in 0..(Len(s) - Len(sub)) : SubSeq(s, i + 1, i + Len(sub)) = sub

\* The optional card_filter argument.
NoFilter == [isNone |-> TRUE, s |-> <<>>]
SomeFilter(s) == [isNone |-> FALSE, s |-> s]
FilterStrings == {<<>>, <<"v">>, <<"G">>, <<"x">>}
Filters == {NoFilter} \cup {SomeFilter(s) : s \in FilterStrings}
\* ... and those the life-cycle specification searches with.
SmallFilters == {NoFilter, SomeFilter(<<"v">>)}

\* A file of embeddings_dir: absent, unreadable (truncated by a write that
\* failed part-way), or holding what was written.
Absent == [state |-> "absent", data |-> <<>>]
Corrupt == [state |-> "corrupt", data |-> <<>>]
Stored(d) == [state |-> "ok", data |-> d]
\* faiss_index.bin holding FAISS's record of no index at all, which
\* read_index gives back as None.
NullIndex == [state |-> "null", data |-> <<>>]

\* self.index
NoneIndex == [isNone |-> TRUE, vectors |-> <<>>]
IndexOf(vs) == [isNone |-> FALSE, vectors |-> vs]

\* Where a call can be made to fail by its environment: the embedding model
\* (line 65), faiss.write_index (line 90) before or after it has truncated the
\* file, open/pickle.dump (lines 93-94) likewise.
SaveFaults == {"none", "write_index_open", "write_index_partial", "dump_open", "dump_partial"}
Faults == SaveFaults \cup {"encode"}

(***************************************************************************)
(* RAGSystem.create_embeddings, save_index, load_index.                    *)
(***************************************************************************)
\* Lines 53-59: self.chunks, every card's chunks in order.
RECURSIVE Flatten(_)
Flatten(cards) ==
    IF cards = <<>> THEN <<>> ELSE Head(cards).chunks \o Flatten(Tail(cards))

\* Lines 65-70: one vector per text, in order.
EncodeAll(chs) == [i \in 1..Len(chs) |-> Encode(chs[i].text)]

\* save_index has no test for self.index being None (line 90), and what
\* faiss.write_index(None, path) does is the library's choice: it opens the
\* file and writes its record of no index, or it opens the file and raises,
\* leaving it truncated.  Each call of save_index takes either course, which
\* covers every build of the library.
NoneWrites == {"writes_null", "raises_after_open"}

\* save_index (lines 84-97) on self.index = idx, self.chunks = chs and the two
\* files dI, dC: the files afterwards and whether the call raised.  noneWrite
\* is what write_index does with None.
SaveEffect(idx, chs, dI, dC, fault, noneWrite) ==
    IF fault = "write_index_open"
    THEN [diskIndex |-> dI, diskChunks |-> dC, raised |-> TRUE]
    ELSE IF fault = "write_index_partial" \/ (idx.isNone /\ noneWrite = "raises_after_open")
    THEN [diskIndex |-> Corrupt, diskChunks |-> dC, raised |-> TRUE]
    ELSE LET blob == IF idx.isNone THEN NullIndex ELSE Stored(idx.vectors)
         IN  IF fault = "dump_open"
             THEN [diskIndex |-> blob, diskChunks |-> dC, raised |-> TRUE]
             ELSE IF fault = "dump_partial"
             THEN [diskIndex |-> blob, diskChunks |-> Corrupt, raised |-> TRUE]
             ELSE [diskIndex |-> blob, diskChunks |-> Stored(chs), raised |-> FALSE]

\* What a save_index that ran to its end has saved, and what is known of the
\* directory once a save_index has stopped after writing to it.
SavedPair(idx, chs) == [valid |-> TRUE, index |-> idx, chunks |-> chs]
NothingSaved == [valid |-> FALSE, index |-> NoneIndex, chunks |-> <<>>]

\* The history of the directory over a call that left the files dI2, dC2 and
\* had self.index = idx, self.chunks = chs when it reached save_index.
SavedAfter(sv, idx, chs, dI, dC, dI2, dC2, raised) ==
    IF ~raised THEN SavedPair(idx, chs)
    ELSE IF dI2 = dI /\ dC2 = dC THEN sv
    ELSE NothingSaved

\* create_embeddings (lines 43-82).  self.chunks is replaced before anything
\* can fail.  With no chunk at all encode returns an array of shape (0,) and
\* index.add raises on it, after line 76 has installed the empty index.
CreateEffect(idx, dI, dC, cards, fault) ==
    LET chs == Flatten(cards)
    IN  IF fault = "encode"
        THEN [index |-> idx, chunks |-> chs, diskIndex |-> dI, diskChunks |-> dC,
              raised |-> TRUE]
        ELSE IF chs = <<>>
        THEN [index |-> IndexOf(<<>>), chunks |-> chs, diskIndex |-> dI,
              diskChunks |-> dC, raised |-> TRUE]
        ELSE LET built == IndexOf(EncodeAll(chs))
                 written == SaveEffect(built, chs, dI, dC, fault, "writes_null")
             IN  [index |-> built, chunks |-> chs, diskIndex |-> written.diskIndex,
                  diskChunks |-> written.diskChunks, raised |-> written.raised]

\* load_index without lines 114-115: the index is read, self.chunks is not.
LoadEffectIndexOnly(idx, chs, dI, dC) ==
    IF dI.state = "absent" \/ dC.state = "absent"
    THEN [index |-> idx, chunks |-> chs, outcome |-> "returned", ret |-> FALSE]
    ELSE IF dI.state = "corrupt"
    THEN [index |-> idx, chunks |-> chs, outcome |-> "raised", ret |-> FALSE]
    ELSE IF dI.state = "null"
    THEN [index |-> NoneIndex, chunks |-> chs, outcome |-> "raised", ret |-> FALSE]
    ELSE [index |-> IndexOf(dI.data), chunks |-> chs, outcome |-> "returned",
          ret |-> TRUE]

\* load_index (lines 99-120): False when a file is missing; read_index raises
\* on an unreadable blob before self.index is assigned; pickle.load raises on
\* an unreadable blob after it was.  From a file holding no index read_index
\* returns None, and the print of line 117 raises on None.ntotal after both
\* fields were assigned.
LoadEffect(idx, chs, dI, dC) ==
    IF dI.state = "absent" \/ dC.state = "absent"
    THEN [index |-> idx, chunks |-> chs, outcome |-> "returned", ret |-> FALSE]
    ELSE IF dI.state = "corrupt"
    THEN [index |-> idx, chunks |-> chs, outcome |-> "raised", ret |-> FALSE]
    ELSE LET read == IF dI.state = "null" THEN NoneIndex ELSE IndexOf(dI.data)
         IN  IF dC.state = "corrupt"
             THEN [index |-> read, chunks |-> chs, outcome |-> "raised", ret |-> FALSE]
             ELSE IF read.isNone
             THEN [index |-> read, chunks |-> dC.data, outcome |-> "raised", ret |-> FALSE]
             ELSE [index |-> read, chunks |-> dC.data, outcome |-> "returned",
                   ret |-> TRUE]

(***************************************************************************)
(* RAGSystem.search.                                                       *)
(***************************************************************************)
\* The distance FAISS reports beside a label of -1 (FLT_MAX): larger than
\* every distance between two vectors of the model.
FltMax == 1000000

TieOrders == {"lower_first", "higher_first"}

\* Squared L2 distance, the metric of IndexFlatL2.
Dist(a, b) == (a - b) * (a - b)

\* The n nearest positions of S in ascending distance d.  FAISS fixes the
\* order of positions at the same distance, the code does not say how: tie is
\* that order, lower position first or higher position first.
RECURSIVE NearestOrder(_, _, _, _)
NearestOrder(S, d, n, tie) ==
    IF n = 0 \/ S = {} THEN <<>>
    ELSE LET nearest == {i \in S : \A j \in S : d[i] <= d[j]}
             first == IF tie = "lower_first"
                      THEN CHOOSE i \in nearest : \A j \in nearest : i <= j
                      ELSE CHOOSE i \in nearest : \A j \in nearest : i >= j
         IN  <<first>> \o NearestOrder(S \ {first}, d, n - 1, tie)

\* index.search(query, limit), lines 142-145: limit (label, distance) pairs,
\* labels 0-based, nearest first, filled up with label -1 when the index
\* holds fewer than limit vectors.
FaissSearch(vectors, q, limit, tie) ==
    LET d == [i \in 1..Len(vectors) |-> Dist(q, vectors[i])]
        o == NearestOrder(1..Len(vectors), d, limit, tie)
    IN  [i \in 1..limit |-> IF i <= Len(o)
                            THEN [idx |-> o[i] - 1, distance |-> d[o[i]]]
                            ELSE [idx |-> -1, distance |-> FltMax]]

\* Line 144: the number of neighbours asked for.
SearchLimit(k, card_filter) ==
    IF card_filter.isNone \/ card_filter.s = <<>> THEN k ELSE k * 3

\* The filter of line 156 left out: every chunk passes.
PassesFilterIgnored(card_filter, chunk) == TRUE

\* Line 156: does the chunk pass the card filter.
PassesFilter(card_filter, chunk) ==
    card_filter.isNone \/ Contains(Lower(card_filter.s), Lower(chunk.card_name))

\* Lines 151-153: the copy of the chunk with its score and its relevance
\* 1 / (1 + distance), the latter as <<numerator, denominator>>.
MakeResult(chunk, distance) ==
    [chunk_id |-> chunk.chunk_id, text |-> chunk.text, card_name |-> chunk.card_name,
     score |-> distance, relevance |-> <<1, 1 + distance>>]

\* Line 151 with the .copy() left out: the result is the stored dict itself,
\* the one at position pos of self.chunks.
ResultObjectStored(pos) == pos

\* Line 151: self.chunks[idx].copy() is a new dict, none of self.chunks.
ResultObject(pos) == 0

\* Lines 149-160 on the candidates still to visit, the results so far and the
\* dicts they are.  A list is indexed as Python does: a negative label counts
\* from the end, and self.chunks[-1] on an empty list raises IndexError.
\* Lines 152-153 write 'score' and 'relevance' into the dict of line 151: into
\* self.chunks when that dict is a stored one.
RECURSIVE SearchLoop(_, _, _, _, _, _)
SearchLoop(cands, chs, k, card_filter, acc, objs) ==
    IF cands = <<>> THEN [results |-> acc, objs |-> objs, chunks |-> chs, raised |-> FALSE]
    ELSE LET c == Head(cands)
         IN  IF c.idx < Len(chs)
             THEN IF c.idx < 0 /\ Len(chs) + c.idx < 0
                  THEN [results |-> <<>>, objs |-> <<>>, chunks |-> chs, raised |-> TRUE]
                  ELSE LET pos == IF c.idx >= 0 THEN c.idx + 1 ELSE Len(chs) + c.idx + 1
                           obj == ResultObject(pos)
                           chunk == MakeResult(chs[pos], c.distance)
                           chs2 == IF obj = 0 THEN chs ELSE [chs EXCEPT ![obj] = chunk]
                           acc2 == IF PassesFilter(card_filter, chunk)
                                   THEN Append(acc, chunk) ELSE acc
                           objs2 == IF Len(acc2) > Len(acc) THEN Append(objs, obj) ELSE objs
                       IN  IF Len(acc2) >= k
                           THEN [results |-> acc2, objs |-> objs2, chunks |-> chs2,
                                 raised |-> FALSE]
                           ELSE SearchLoop(Tail(cands), chs2, k, card_filter, acc2, objs2)
             ELSE SearchLoop(Tail(cands), chs, k, card_filter, acc, objs)

\* search (lines 134-162) once FAISS has answered with cands.
SearchEffect(idx, chs, cands, k, card_filter) ==
    IF idx.isNone THEN [results |-> <<>>, objs |-> <<>>, chunks |-> chs, raised |-> FALSE]
    ELSE SearchLoop(cands, chs, k, card_filter, <<>>, <<>>)

\* The value a caller of search writes into a field of a result it was given.
Edited(field) ==
    CASE field = "text" -> "edited"
      [] field = "card_name" -> <<"x">>
      [] field = "score" -> -1

ResultFields == {"text", "card_name", "score"}

(***************************************************************************)
(* The calls, as actions.                                                  *)
(***************************************************************************)
\* The last call made was of this name.
IsCall(name) == op.name = name /\ outcome # "none"

NoArgs == [cards |-> <<>>, fault |-> "none", query |-> "", k |-> 0, card_filter |-> NoFilter]
Call(name, args) == [name |-> name, args |-> args]

\* RAGSystem.__init__ (lines 32-41) on the directory as it is.
Construct ==
    /\ index' = NoneIndex
    /\ chunks' = <<>>
    /\ op' = Call("__init__", NoArgs)
    /\ outcome' = "returned"
    /\ ret' = FALSE
    /\ results' = <<>>
    /\ resultObj' = <<>>
    /\ succeeded' = FALSE
    /\ UNCHANGED <<diskIndex, diskChunks, tieOrder, saved>>
    /\ UNCHANGED <<chunkVars, runVars>>

CreateEmbeddings(cards, fault) ==
    LET e == CreateEffect(index, diskIndex, diskChunks, cards, fault)
    IN  /\ index' = e.index
        /\ chunks' = e.chunks
        /\ diskIndex' = e.diskIndex
        /\ diskChunks' = e.diskChunks
        /\ op' = Call("create_embeddings", [NoArgs EXCEPT !.cards = cards, !.fault = fault])
        /\ outcome' = IF e.raised THEN "raised" ELSE "returned"
        /\ ret' = FALSE
        /\ results' = <<>>
        /\ resultObj' = <<>>
        /\ succeeded' = (succeeded \/ ~e.raised)
        /\ saved' = SavedAfter(saved, e.index, e.chunks, diskIndex, diskChunks,
                               e.diskIndex, e.diskChunks, e.raised)
        /\ UNCHANGED tieOrder
        /\ UNCHANGED <<chunkVars, runVars>>

SaveIndex(fault, noneWrite) ==
    LET e == SaveEffect(index, chunks, diskIndex, diskChunks, fault, noneWrite)
    IN  /\ diskIndex' = e.diskIndex
        /\ diskChunks' = e.diskChunks
        /\ op' = Call("save_index", [NoArgs EXCEPT !.fault = fault])
        /\ outcome' = IF e.raised THEN "raised" ELSE "returned"
        /\ ret' = FALSE
        /\ results' = <<>>
        /\ resultObj' = <<>>
        /\ saved' = SavedAfter(saved, index, chunks, diskIndex, diskChunks,
                               e.diskIndex, e.diskChunks, e.raised)
        /\ UNCHANGED <<index, chunks, succeeded, tieOrder>>
        /\ UNCHANGED <<chunkVars, runVars>>

LoadIndex ==
    LET e == LoadEffect(index, chunks, diskIndex, diskChunks)
    IN  /\ index' = e.index
        /\ chunks' = e.chunks
        /\ op' = Call("load_index", NoArgs)
        /\ outcome' = e.outcome
        /\ ret' = e.ret
        /\ results' = <<>>
        /\ resultObj' = <<>>
        /\ succeeded' = (succeeded \/ e.ret)
        /\ UNCHANGED <<diskIndex, diskChunks, tieOrder, saved>>
        /\ UNCHANGED <<chunkVars, runVars>>

Search(query, k, card_filter) ==
    LET cands == FaissSearch(index.vectors, Encode(query), SearchLimit(k, card_filter),
                             tieOrder)
        e == SearchEffect(index, chunks, cands, k, card_filter)
    IN  /\ op' = Call("search", [NoArgs EXCEPT !.query = query, !.k = k,
                                               !.card_filter = card_filter])
        /\ outcome' = IF e.raised THEN "raised" ELSE "returned"
        /\ ret' = FALSE
        /\ results' = e.results
        /\ resultObj' = e.objs
        /\ chunks' = e.chunks
        /\ UNCHANGED <<index, diskIndex, diskChunks, succeeded, tieOrder, saved>>
        /\ UNCHANGED <<chunkVars, runVars>>

\* The caller of search assigns a field of the i-th result it was given.  The
\* assignment is seen through every name of that dict: results that are the
\* same stored dict, and self.chunks when the dict is a stored one.
ResultSet(i, field) ==
    /\ IsCall("search")
    /\ outcome = "returned"
    /\ i \in 1..Len(results)
    /\ results' = [j \in 1..Len(results) |->
                      IF j = i \/ (resultObj[i] # 0 /\ resultObj[j] = resultObj[i])
                      THEN [results[j] EXCEPT ![field] = Edited(field)]
                      ELSE results[j]]
    /\ chunks' = IF resultObj[i] = 0 THEN chunks
                 ELSE [chunks EXCEPT ![resultObj[i]][field] = Edited(field)]
    /\ op' = Call("result_set", NoArgs)
    /\ UNCHANGED <<index, diskIndex, diskChunks, outcome, ret, resultObj, succeeded,
                   tieOrder, saved>>
    /\ UNCHANGED <<chunkVars, runVars>>

\* chunk_text has no statement that raises on a str and two ints.
ChunkTextCall ==
    /\ ctPc = "call"
    /\ ctPc' = "done"
    /\ ctRaised' = FALSE
    /\ ctChunks' = ChunkText(text, chunk_size, overlap)
    /\ UNCHANGED <<text, chunk_size, overlap>>
    /\ UNCHANGED <<ragVars, runVars>>

(***************************************************************************)
(* The agents (src/agents) and OrchestratorAgent.run.                      *)
(***************************************************************************)
\* BaseAgent.name of the three agents, in the order run calls them.
Agents == <<"SpendingAnalyzer", "BenefitEvaluator", "CardSelector">>

\* The "error" of the dict run returns when a stage did not succeed.
StageErrors ==
    <<"Spending analysis failed", "Benefit evaluation failed", "Card selection failed">>

ZeroUsage == [input_tokens |-> 0, output_tokens |-> 0]
Usages == [input_tokens : 1..MaxTokens, output_tokens : 1..MaxTokens]

\* What the model answers: prose, or JSON of one shape or another.
ResponseTexts == {"Sorry, no JSON", "[]", "{}", "{\"recommendations\": []}"}

\* What client.messages.create does: it raises, or gives a message with a
\* text and a usage.
ApiResponses ==
    {[fails |-> TRUE, text |-> "", usage |-> ZeroUsage]}
        \cup {[fails |-> FALSE, text |-> t, usage |-> u] : t \in ResponseTexts, u \in Usages}

\* BaseAgent.call_claude (lines 34-66): an exception of the API becomes a
\* text that starts with "Error: " and a usage of zero.
CallClaude(resp) ==
    IF resp.fails THEN [text |-> "Error: API failure", usage |-> ZeroUsage]
    ELSE [text |-> resp.text, usage |-> resp.usage]

\* json.loads: the value parsed, by its type and, for an object, its keys;
\* ok is FALSE where json.loads raises JSONDecodeError.
NoJson == [ok |-> FALSE, type |-> "none", keys |-> {}]
JsonLoads(t) ==
    CASE t = "[]" -> [ok |-> TRUE, type |-> "list", keys |-> {}]
      [] t = "{}" -> [ok |-> TRUE, type |-> "dict", keys |-> {}]
      [] t = "{\"recommendations\": []}" ->
             [ok |-> TRUE, type |-> "dict", keys |-> {"recommendations"}]
      [] OTHER -> NoJson

\* SpendingAnalyzerAgent.process and CardSelectorAgent.process: the answer
\* of call_claude parsed, "success" with the parsed value under 'analysis' or
\* 'recommendations' (here: value), "error" when it does not parse.
AgentProcess(name, resp) ==
    LET response == CallClaude(resp)
        parsed == JsonLoads(response.text)
    IN  [status |-> IF parsed.ok THEN "success" ELSE "error",
         agent  |-> name,
         value  |-> parsed,
         usage  |-> response.usage]

\* BenefitEvaluatorAgent.process (lines 22-107, rag_system None): "error"
\* without a call of the API when there is no card.
BenefitProcess(cards, resp) ==
    IF cards = <<>>
    THEN [status |-> "error", agent |-> Agents[2], value |-> NoJson, usage |-> ZeroUsage]
    ELSE AgentProcess(Agents[2], resp)

\* Lines 67-68, 82-83, 98-99.
AddUsage(total, u) ==
    [input_tokens  |-> total.input_tokens + u.input_tokens,
     output_tokens |-> total.output_tokens + u.output_tokens]

\* Lines 104-105, as <<numerator, denominator>>.
Cost(total) == <<total.input_tokens * 8 + total.output_tokens * 40, 10000000>>

\* The dicts run returns; an error dict has no 'status' key.
NoReturn == [status |-> "absent", error |-> "", api_usage |-> ZeroUsage, cost |-> <<0, 1>>]
ErrorReturn(stage) == [NoReturn EXCEPT !.error = StageErrors[stage]]
SuccessReturn(total) == [NoReturn EXCEPT !.status = "success", !.api_usage = total,
                                         !.cost = Cost(total)]

\* The f-string of line 70 calls .get on the parsed spending analysis.
SpendingPrintable(res) == res.value.type = "dict"

\* The f-string of line 101 reads ['recommendations']['recommendations'] of
\* the selector's result and takes its len.
SelectorPrintable(res) == res.value.type = "dict" /\ "recommendations" \in res.value.keys

\* The cards run is called with.
CardLists == {<<>>, <<[name |-> "Vg"]>>}

\* run is called (lines 51-56).
RunCall(cards) ==
    /\ runPc = "idle"
    /\ runPc' = Agents[1]
    /\ run_cards' = cards
    /\ total_usage' = ZeroUsage
    /\ stageResults' = <<>>
    /\ runOutcome' = "none"
    /\ runReturn' = NoReturn
    /\ UNCHANGED <<chunkVars, ragVars>>

\* One stage of run: the process call of agent number stage has returned res.
\* run returns the error dict when res is no success, raises when the print
\* after the stage cannot read res, and goes on otherwise.
RunStage(stage, res, printable) ==
    /\ stageResults' = Append(stageResults, res)
    /\ IF res.status # "success"
       THEN /\ runPc' = "done"
            /\ runOutcome' = "returned"
            /\ runReturn' = ErrorReturn(stage)
            /\ UNCHANGED total_usage
       ELSE /\ total_usage' = AddUsage(total_usage, res.usage)
            /\ IF ~printable
               THEN /\ runPc' = "done"
                    /\ runOutcome' = "raised"
                    /\ UNCHANGED runReturn
               ELSE IF stage < Len(Agents)
               THEN /\ runPc' = Agents[stage + 1]
                    /\ UNCHANGED <<runOutcome, runReturn>>
               ELSE /\ runPc' = "done"
                    /\ runOutcome' = "returned"
                    /\ runReturn' = SuccessReturn(total_usage')
    /\ UNCHANGED run_cards
    /\ UNCHANGED <<chunkVars, ragVars>>

\* Lines 58-70.
SpendingStage(resp) ==
    /\ runPc = Agents[1]
    /\ LET res == AgentProcess(Agents[1], resp)
       IN  RunStage(1, res, SpendingPrintable(res))

\* Lines 72-84.
BenefitStage(resp) ==
    /\ runPc = Agents[2]
    /\ LET res == BenefitProcess(run_cards, resp)
       IN  RunStage(2, res, TRUE)

\* Lines 86-120.
SelectorStage(resp) ==
    /\ runPc = Agents[3]
    /\ LET res == AgentProcess(Agents[3], resp)
       IN  RunStage(3, res, SelectorPrintable(res))

(***************************************************************************)
(* Specifications.                                                         *)
(***************************************************************************)
\* No run of the orchestrator under way.
RunIdle ==
    /\ runPc = "idle"
    /\ run_cards = <<>>
    /\ total_usage = ZeroUsage
    /\ stageResults = <<>>
    /\ runOutcome = "none"
    /\ runReturn = NoReturn

\* A RAGSystem just constructed over an empty embeddings directory.
RagInit ==
    /\ index = NoneIndex
    /\ chunks = <<>>
    /\ diskIndex = Absent
    /\ diskChunks = Absent
    /\ op = Call("__init__", NoArgs)
    /\ outcome = "returned"
    /\ ret = FALSE
    /\ results = <<>>
    /\ resultObj = <<>>
    /\ tieOrder \in TieOrders
    /\ succeeded = FALSE
    /\ saved = NothingSaved

ChunkIdle ==
    /\ text = <<>>
    /\ chunk_size = 1
    /\ overlap = 0
    /\ ctPc = "idle"
    /\ ctRaised = FALSE
    /\ ctChunks = <<>>

\* The life cycle of one embeddings directory: systems are constructed over
\* it, build, save, load and search, and any call may fail where it can.
Init == RagInit /\ ChunkIdle /\ RunIdle

Next ==
    \/ Construct
    \/ \E cards \in SmallCorpora, fault \in Faults : CreateEmbeddings(cards, fault)
    \/ \E fault \in SaveFaults, noneWrite \in NoneWrites : SaveIndex(fault, noneWrite)
    \/ LoadIndex
    \/ \E q \in Queries, k \in 1..MaxK, f \in SmallFilters : Search(q, k, f)

Spec == Init /\ [][Next]_vars

\* A search of an index built without failure from a corpus of several cards.
BuildOnce ==
    /\ index.isNone
    /\ \E cards \in Corpora : CreateEmbeddings(cards, "none")

\* One search of each index, with each query, k and filter.
SearchOnce ==
    /\ op.name = "create_embeddings"
    /\ \E q \in Queries, k \in 1..MaxK, f \in Filters : Search(q, k, f)

NextSearch == BuildOnce \/ SearchOnce

SpecSearch == Init /\ [][NextSearch]_vars

\* A caller that builds a small index, searches it once and then writes to
\* one field of one result.
BuildSmall ==
    /\ index.isNone
    /\ \E cards \in SmallCorpora : CreateEmbeddings(cards, "none")

ResultSetOnce == \E i \in 1..MaxK, field \in ResultFields : ResultSet(i, field)

NextCaller == BuildSmall \/ SearchOnce \/ ResultSetOnce

SpecCaller == Init /\ [][NextCaller]_vars

\* One run of the orchestrator on each card list, with every answer of the
\* API to every stage.
InitRun == RagInit /\ tieOrder = "lower_first" /\ ChunkIdle /\ RunIdle

NextRun ==
    \/ \E cards \in CardLists : RunCall(cards)
    \/ \E resp \in ApiResponses : SpendingStage(resp)
    \/ \E resp \in ApiResponses : BenefitStage(resp)
    \/ \E resp \in ApiResponses : SelectorStage(resp)

SpecRun == InitRun /\ [][NextRun]_vars

\* One call of chunk_text on each text, chunk_size and overlap of the bounds.
InitChunk ==
    /\ RagInit
    /\ tieOrder = "lower_first"
    /\ text \in InputTexts
    /\ chunk_size \in 1..MaxChunkSize
    /\ overlap \in 0..MaxOverlap
    /\ ctPc = "call"
    /\ ctRaised = FALSE
    /\ ctChunks = <<>>
    /\ RunIdle

NextChunk == ChunkTextCall

SpecChunk == InitChunk /\ [][NextChunk]_vars

(***************************************************************************)
(* The claims.                                                             *)
(***************************************************************************)

\* C1: whenever self.index is set, it holds as many vectors as self.chunks
\* holds chunks, and the vector at position i is the embedding of the text of
\* self.chunks[i]; in every state, also after a call that raised.
C1_PositionAligned ==
    ~index.isNone =>
        /\ Len(index.vectors) = Len(chunks)
        /\ \A i \in 1..Len(chunks) : index.vectors[i] = Encode(chunks[i].text)

\* C2: load_index installs a pair (returns True) only when both files exist
\* and hold as many vectors as chunk records; when a file is missing or the
\* counts differ, it reports the failure and leaves self.index and
\* self.chunks as they were.
PairMissing == diskIndex.state = "absent" \/ diskChunks.state = "absent"
PairCountsDiffer ==
    /\ diskIndex.state = "ok"
    /\ diskChunks.state = "ok"
    /\ Len(diskIndex.data) # Len(diskChunks.data)
PairInstallable ==
    /\ diskIndex.state = "ok"
    /\ diskChunks.state = "ok"
    /\ Len(diskIndex.data) = Len(diskChunks.data)

C2_LoadRejectsUnpaired ==
    [][LoadIndex =>
        /\ (outcome' = "returned" /\ ret') => PairInstallable
        /\ (PairMissing \/ PairCountsDiffer) =>
              /\ ~(outcome' = "returned" /\ ret')
              /\ index' = index
              /\ chunks' = chunks]_vars

\* C3: every result of a search with a non-empty card_filter has a card_name
\* that contains the filter, letter case aside.
C3_FilterRespected ==
    (IsCall("search") /\ ~op.args.card_filter.isNone /\ op.args.card_filter.s # <<>>) =>
        \A i \in 1..Len(results) :
            Contains(Lower(op.args.card_filter.s), Lower(results[i].card_name))

\* A filtered search of an index holding chunks of both cards, some matching
\* the filter and some not, has returned a result.
C3_Witness ==
    /\ IsCall("search")
    /\ op.args.card_filter = SomeFilter(<<"v">>)
    /\ \E i \in 1..Len(chunks) : PassesFilter(op.args.card_filter, chunks[i])
    /\ \E i \in 1..Len(chunks) : ~PassesFilter(op.args.card_filter, chunks[i])
    /\ Len(results) >= 1

\* The chunks of self.chunks that pass the filter.
Matching(card_filter) == {i \in 1..Len(chunks) : PassesFilter(card_filter, chunks[i])}
SeveralSources == \E i, j \in 1..Len(chunks) : chunks[i].card_name # chunks[j].card_name

\* C4: a filtered search over N <= 3*k chunks of several sources, of which
\* m < k match the filter, returns exactly m results and does not raise.
C4_FewMatchesAllReturned ==
    (/\ IsCall("search")
     /\ ~op.args.card_filter.isNone /\ op.args.card_filter.s # <<>>
     /\ ~index.isNone
     /\ Len(index.vectors) = Len(chunks)
     /\ Len(chunks) <= 3 * op.args.k
     /\ SeveralSources
     /\ Cardinality(Matching(op.args.card_filter)) < op.args.k)
    => (outcome = "returned"
        /\ Len(results) = Cardinality(Matching(op.args.card_filter)))

\* C5: an unfiltered search asking for more results than the (non-empty)
\* index holds vectors returns exactly one result per indexed chunk and does
\* not raise.
C5_LimitCapped ==
    (/\ IsCall("search")
     /\ op.args.card_filter.isNone
     /\ ~index.isNone
     /\ Len(index.vectors) = Len(chunks)
     /\ Len(chunks) >= 1
     /\ op.args.k > Len(chunks))
    => (outcome = "returned" /\ Len(results) = Len(chunks))

\* C6: as long as no create_embeddings or load_index call has completed
\* successfully, search returns the empty sequence and does not raise.
C6_UnbuiltSearchEmpty ==
    (IsCall("search") /\ ~succeeded) => (outcome = "returned" /\ results = <<>>)

IsPrefix(p, t) == Len(p) <= Len(t) /\ SubSeq(t, 1, Len(p)) = p

\* C7: a (non-empty) text shorter than chunk_size gives exactly one chunk,
\* whose text is the input with newlines turned into spaces, trimmed.
C7_ShortTextOneChunk ==
    (ctPc = "done" /\ text # <<>> /\ Len(text) < chunk_size) =>
        /\ ~ctRaised
        /\ Len(ctChunks) = 1
        /\ ctChunks[1].text = Strip(ReplaceNewlines(text))

\* C8: with 0 < overlap < chunk_size, the text of every chunk after the first
\* begins with the last overlap characters of the text of the chunk before.
C8_OverlapPrefix ==
    (ctPc = "done" /\ 0 < overlap /\ overlap < chunk_size) =>
        \A i \in 2..Len(ctChunks) :
            IsPrefix(LastChars(ctChunks[i - 1].text, overlap), ctChunks[i].text)

\* C9: chunk_text with overlap >= chunk_size fails with an error and returns
\* no chunks.
C9_BadOverlapRejected ==
    (ctPc = "done" /\ overlap >= chunk_size) => (ctRaised /\ ctChunks = <<>>)

\* C10: chunk_text of the empty text returns the empty sequence.
C10_EmptyTextNoChunks ==
    (ctPc = "done" /\ text = <<>>) => (~ctRaised /\ ctChunks = <<>>)

\* C11: every chunk chunk_text emits has length equal to the number of
\* characters of its stored text.
C11_LengthIsTextLength ==
    ctPc = "done" => \A i \in 1..Len(ctChunks) : ctChunks[i].length = Len(ctChunks[i].text)

\* The input holds no sentence delimiter once its newlines are spaces.
NoDelimiter(t) == FirstDelim(ReplaceNewlines(t)) = 0

\* C12 as claimed: an input longer than chunk_size without a sentence
\* delimiter gives at least 2 chunks, each of at most chunk_size + overlap
\* characters.
C12_LongTextSplit ==
    (ctPc = "done" /\ Len(text) > chunk_size /\ NoDelimiter(text)) =>
        /\ Len(ctChunks) >= 2
        /\ \A i \in 1..Len(ctChunks) : Len(ctChunks[i].text) <= chunk_size + overlap

\* C12 as amended: such an input is one sentence and is emitted whole, as
\* exactly one chunk whose text is the input, newlines as spaces and trimmed,
\* followed by ".", whatever chunk_size and overlap are.
C12_LongSentenceWhole ==
    (ctPc = "done" /\ Len(text) > chunk_size /\ NoDelimiter(text)) =>
        /\ ~ctRaised
        /\ Len(ctChunks) = 1
        /\ ctChunks[1].chunk_id = 0
        /\ ctChunks[1].text = Strip(ReplaceNewlines(text)) \o <<".">>

\* A text of letters only, more than twice chunk_size long, has come back as
\* one chunk longer than chunk_size + overlap.
C12_Witness ==
    /\ ctPc = "done"
    /\ text = <<"a", "a", "a", "a", "a">>
    /\ chunk_size = 2
    /\ overlap = 1
    /\ Len(ctChunks) = 1
    /\ Len(ctChunks[1].text) > chunk_size + overlap

\* The sentence units of the loop, line 56: each piece of the split, trimmed,
\* with ". " appended.
RECURSIVE SumLen(_)
SumLen(ss) == IF ss = <<>> THEN 0 ELSE Len(Strip(Head(ss))) + 2 + SumLen(Tail(ss))

RECURSIVE SumLength(_)
SumLength(cs) == IF cs = <<>> THEN 0 ELSE Head(cs).length + SumLength(Tail(cs))

\* C18: with overlap = 0 nothing is carried over from one chunk to the next,
\* so every sentence unit is in exactly one chunk: the buffers of the chunks
\* hold together exactly the characters of the sentence units.
C18_ZeroOverlapNoCarry ==
    (ctPc = "done" /\ overlap = 0) =>
        SumLength(ctChunks) = SumLen(SplitSentences(ReplaceNewlines(text)))

\* search(query, k, card_filter) on a system holding idx and chs.
SearchOf(idx, chs, query, k, card_filter) ==
    SearchEffect(idx, chs,
                 FaissSearch(idx.vectors, Encode(query), SearchLimit(k, card_filter),
                             tieOrder),
                 k, card_filter)

\* C13: a load_index that follows a completed save_index on the same
\* directory, on the same or on a fresh RAGSystem, leaves self.chunks equal
\* to the list saved, in order, and the index with the vectors saved, at the
\* same positions, so that every search returns what it returned before the
\* save; it returns True when an index was saved.
C13_SaveLoadRoundTrip ==
    (IsCall("load_index") /\ saved.valid) =>
        /\ chunks = saved.chunks
        /\ index = saved.index
        /\ ~saved.index.isNone => (outcome = "returned" /\ ret)
        /\ \A q \in Queries, k \in 1..MaxK, f \in SmallFilters :
               SearchOf(index, chunks, q, k, f)
                   = SearchOf(saved.index, saved.chunks, q, k, f)

\* A load_index has brought back a saved pair of two chunks.
C13_Witness ==
    /\ IsCall("load_index")
    /\ saved.valid
    /\ ret
    /\ Len(saved.chunks) = 2
    /\ chunks = saved.chunks
    /\ index.vectors = <<0, 2>>

\* C14: search neither modifies nor hands out the stored state: a search
\* leaves self.chunks (no 'score' or 'relevance' key added to a stored chunk)
\* and self.index as they were, and so does a later assignment by the caller
\* to any field of a returned result.
C14_SearchFrame ==
    [][(op'.name \in {"search", "result_set"}) => (chunks' = chunks /\ index' = index)]_vars

\* The caller has overwritten the text of a result of a search of two stored
\* chunks, and no stored chunk shows it.
C14_Witness ==
    /\ IsCall("result_set")
    /\ Len(chunks) = 2
    /\ Len(results) >= 2
    /\ \E i \in 1..Len(results) : results[i].text = "edited"
    /\ \A p \in 1..Len(chunks) : chunks[p].text # "edited"

\* The last call was a create_embeddings given no chunk at all, the model and
\* the directory working.
ZeroChunkCreate ==
    /\ IsCall("create_embeddings")
    /\ op.args.fault = "none"
    /\ Flatten(op.args.cards) = <<>>

\* C15: create_embeddings with zero chunks in total is rejected with an error
\* at create time, and the system it leaves does not raise on the next search.
C15_ZeroChunksRejected ==
    ZeroChunkCreate =>
        /\ outcome = "raised"
        /\ \A q \in Queries, k \in 1..MaxK, f \in SmallFilters :
               ~SearchOf(index, chunks, q, k, f).raised

\* C16: whenever both files of the directory are there for a load_index to
\* read, they are a position-aligned pair: as many vectors as chunks, the
\* i-th vector the embedding of the i-th chunk's text.
C16_DiskPairAligned ==
    (diskIndex.state = "ok" /\ diskChunks.state = "ok") =>
        /\ Len(diskIndex.data) = Len(diskChunks.data)
        /\ \A i \in 1..Len(diskChunks.data) :
               diskIndex.data[i] = Encode(diskChunks.data[i].text)

\* Every process call made so far returned 'success'.
AllSucceeded(rs) == \A i \in 1..Len(rs) : rs[i].status = "success"

\* C17: run calls SpendingAnalyzer, BenefitEvaluator, CardSelector in this
\* order, each at most once, a stage only after every earlier stage returned
\* 'success'; the result of run has status 'success' exactly when all three
\* stages returned 'success', and a stage that did not succeed gives an error
\* result naming that stage.
C17_StagedRun ==
    LET n == Len(stageResults)
    IN  /\ n <= Len(Agents)
        /\ \A i \in 1..n : stageResults[i].agent = Agents[i]
        /\ \A i \in 1..(n - 1) : stageResults[i].status = "success"
        /\ runPc = "done" =>
               /\ (runOutcome = "returned" /\ runReturn.status = "success")
                      <=> (n = Len(Agents) /\ AllSucceeded(stageResults))
               /\ ~AllSucceeded(stageResults) =>
                      /\ runOutcome = "returned"
                      /\ runReturn.status # "success"
                      /\ runReturn.error = StageErrors[n]

====
